---- MODULE Spec2Model ----
(***************************************************************************)
(* A model of the hot-reload Manager of package hotreload: the pattern     *)
(* matcher, the subscription registry, the dispatch engine HandleChange    *)
(* and the structured field router, with the sync.RWMutex that guards the  *)
(* registry.  Go strings are sequences of one-character strings.           *)
(***************************************************************************)
EXTENDS Integers, Sequences, FiniteSets, TLC

(***************************************************************************)
(* Strings                                                                 *)
(***************************************************************************)

\* strings.HasPrefix(s, p)
HasPrefix(s, p) == Len(s) >= Len(p) /\ SubSeq(s, 1, Len(p)) = p

\* strings.HasSuffix(s, p)
HasSuffix(s, p) == Len(s) >= Len(p) /\ SubSeq(s, Len(s) - Len(p) + 1, Len(s)) = p

\* strings.Contains(s, c) for a one-character c
Contains(s, c) == \E i \in 1..Len(s) : s[i] = c

\* the index of the first c in s (s contains c)
IndexOf(s, c) == CHOOSE i \in 1..Len(s) : s[i] = c /\ \A j \in 1..(i - 1) : s[j] # c

RECURSIVE Split(_, _)
\* strings.Split(s, c): the pieces of s between the occurrences of c
Split(s, c) ==
    IF ~Contains(s, c) THEN <<s>>
    ELSE LET i == IndexOf(s, c)
         IN  <<SubSeq(s, 1, i - 1)>> \o Split(SubSeq(s, i + 1, Len(s)), c)

RECURSIVE Join(_, _)
\* strings.Join(parts, c)
Join(parts, c) ==
    IF parts = <<>> THEN <<>>
    ELSE IF Len(parts) = 1 THEN parts[1]
    ELSE parts[1] \o <<c>> \o Join(Tail(parts), c)

\* splitKey: strings.Split(key, ".")
splitKey(key) == Split(key, ".")

\* joinKey: strings.Join(parts, ".")
joinKey(parts) == Join(parts, ".")

(***************************************************************************)
(* The pattern matcher                                                     *)
(***************************************************************************)

\* pattern ends with ".*" and is longer than two characters
IsPrefixWildcard(pattern) ==
    Len(pattern) > 2 /\ SubSeq(pattern, Len(pattern) - 1, Len(pattern)) = <<".", "*">>

\* the prefix-wildcard branch returns true
PrefixWildcardHit(pattern, key) ==
    /\ IsPrefixWildcard(pattern)
    /\ LET prefix == SubSeq(pattern, 1, Len(pattern) - 2)
       IN  Len(key) >= Len(prefix) /\ SubSeq(key, 1, Len(prefix)) = prefix

\* SingleWildcardEntered with a split into two or more parts accepted
SingleWildcardEnteredAnyParts(pattern, key) ==
    /\ Contains(pattern, "*")
    /\ LET parts == Split(pattern, "*")
       IN  /\ Len(parts) >= 2
           /\ HasPrefix(key, parts[1])
           /\ HasSuffix(key, parts[2])

\* the single-"*" branch is entered and key has the prefix and the suffix
SingleWildcardEntered(pattern, key) ==
    /\ Contains(pattern, "*")
    /\ LET parts == Split(pattern, "*")
       IN  /\ Len(parts) = 2
           /\ HasPrefix(key, parts[1])
           /\ HasSuffix(key, parts[2])

\* matchPattern panics: key[len(prefix) : len(key)-len(suffix)] with the low
\* bound above the high bound (prefix and suffix overlap in key)
matchPatternPanics(pattern, key) ==
    /\ pattern # <<>>
    /\ pattern # key
    /\ ~PrefixWildcardHit(pattern, key)
    /\ SingleWildcardEntered(pattern, key)
    /\ LET parts == Split(pattern, "*")
       IN  Len(parts[1]) > Len(key) - Len(parts[2])

\* matchPattern's result when it does not panic
matchPattern(pattern, key) ==
    IF pattern = <<>> THEN FALSE
    ELSE IF pattern = key THEN TRUE
    ELSE IF PrefixWildcardHit(pattern, key) THEN TRUE
    ELSE IF SingleWildcardEntered(pattern, key)
         THEN LET parts  == Split(pattern, "*")
                  middle == SubSeq(key, Len(parts[1]) + 1, Len(key) - Len(parts[2]))
              IN  ~Contains(middle, ".")
    ELSE FALSE

\* hasPrefix(key, prefix): matchPattern(prefix+"*", key) || strings.HasPrefix(key, prefix)
\* (prefix+"*" never makes matchPattern panic: its suffix is empty)
hasPrefix(key, prefix) ==
    matchPattern(prefix \o <<"*">>, key) \/ HasPrefix(key, prefix)

(***************************************************************************)
(* Inputs                                                                  *)
(***************************************************************************)

\* the goroutines that call into the Manager
Threads == {"t1", "t2"}

\* the number of calls (top-level or made from a callback) one run makes
MaxCalls == 3

\* the values of a change event: equal and unequal old and new values
ValuePairs == {<<"v", "v">>, <<"v", "w">>}

\* the calls one run of the sequential specification makes
MaxRouteCalls == 2

\* the calls one run of the fair specification makes
MaxFairCalls == 4

\* the longest key of the sequential specification
MaxKeyLen == 4

\* the longest pattern of the matcher's specification
MaxPatternLen == 3

\* all strings over the characters of A of at most n characters
Strings(A, n) == UNION {[1..k -> A] : k \in 0..n}

\* the inputs of the concurrent runs
ConcU ==
    [calls       |-> MaxCalls,
     nils        |-> {FALSE},
     values      |-> {<<"v", "w">>},
     patternsCalls |-> TRUE,
     keys        |-> {<<"a">>, <<"a", ".", "b">>},
     patterns    |-> {<<"a", ".", "b">>, <<"a", ".", "*">>, <<"a", ".", "*", ".", "b">>},
     patternSeqs |-> {<< <<"a", ".", "b">>, <<"a", ".", "*">> >>},
     prefixSeqs  |-> {<<>>, << <<"a", ".">>, <<"a">> >>},
     nilPattern  |-> <<"a", ".", "b">>]

\* the inputs of the sequential runs: every key over "a" and "."
RouteU ==
    [calls       |-> MaxRouteCalls,
     nils        |-> BOOLEAN,
     values      |-> ValuePairs,
     patternsCalls |-> TRUE,
     keys        |-> Strings({"a", "."}, MaxKeyLen),
     patterns    |-> {<<"a", ".", "*">>, <<"a", ".", "*", ".", "a">>},
     patternSeqs |-> {<< <<"a", ".", "a">>, <<"*">> >>},
     prefixSeqs  |-> {<<>>, << <<>> >>, << <<"a">> >>, << <<"a", ".">> >>,
                      << <<".">>, <<"a", ".">> >>},
     nilPattern  |-> <<"a", ".", "*">>]

\* the inputs of the fair runs
FairU ==
    [calls       |-> MaxFairCalls,
     nils        |-> {FALSE},
     values      |-> {<<"v", "v">>},
     patternsCalls |-> FALSE,
     keys        |-> {<<"a">>, <<"a", ".", "b">>},
     patterns    |-> {<<"a", ".", "*">>},
     patternSeqs |-> {<< <<"a", ".", "*">>, <<"a", ".", "*", ".", "b">> >>},
     prefixSeqs  |-> {<<>>},
     nilPattern  |-> <<"a", ".", "*">>]

\* the inputs of the matcher's runs: every pattern and every key over "a", "."
\* and "*"
MatchU ==
    [calls       |-> MaxRouteCalls,
     nils        |-> {FALSE},
     values      |-> {<<"v", "w">>},
     patternsCalls |-> FALSE,
     keys        |-> Strings({"a", ".", "*"}, MaxKeyLen),
     patterns    |-> Strings({"a", ".", "*"}, MaxPatternLen),
     patternSeqs |-> {<<>>},
     prefixSeqs  |-> {<<>>},
     nilPattern  |-> <<>>]

(***************************************************************************)
(* State                                                                   *)
(***************************************************************************)

VARIABLES
    handlers,         \* Manager.handlers: pattern -> list of registered handlers
    reloaders,        \* Manager.reloaders
    fieldSetter,      \* Manager.fieldSetter: 0 is nil, n the setter given by call n
    allowedPrefixes,  \* Manager.allowedPrefixes
    mu,               \* Manager.mu: the readers holding it and the writer's state
    stack,            \* per goroutine, its calls into the Manager, innermost last
    ncalls,           \* the calls made so far: a call's number identifies it
    returned,         \* the RegisterHandler calls that returned nil
    bindings          \* the (setter, allowedPrefixes) pairs SetFieldSetter was called with

vars == <<handlers, reloaders, fieldSetter, allowedPrefixes, mu, stack, ncalls, returned, bindings>>

\* the nil error
Nil == [err |-> "nil", by |-> 0]

\* NewManager
Init ==
    /\ handlers = <<>>
    /\ reloaders = <<>>
    /\ fieldSetter = 0
    /\ allowedPrefixes = <<>>
    /\ mu = [readers |-> 0, w |-> "free"]
    /\ stack = [t \in Threads |-> <<>>]
    /\ ncalls = 0
    /\ returned = {}
    /\ bindings = {[setter |-> 0, prefixes |-> <<>>]}

Top(t) == stack[t][Len(stack[t])]

SetTop(t, f) == [stack EXCEPT ![t] = [@ EXCEPT ![Len(@)] = f]]

Push(t, f) == [stack EXCEPT ![t] = Append(@, f)]

\* m.handlers[pattern], nil (the empty list) when the map has no such key
HandlersOf(hs, pattern) == IF pattern \in DOMAIN hs THEN hs[pattern] ELSE <<>>

\* m.handlers[pattern] = list
PutHandlers(hs, pattern, list) ==
    [p \in DOMAIN hs \cup {pattern} |-> IF p = pattern THEN list ELSE hs[p]]

\* all orders in which a range over the map may visit the patterns of S
Orders(S) ==
    {o \in [1..Cardinality(S) -> S] : \A i, j \in 1..Cardinality(S) : o[i] = o[j] => i = j}

(***************************************************************************)
(* sync.RWMutex                                                            *)
(***************************************************************************)

\* CanRLock of a mutex that lets a reader in beside a writer
CanRLockUnguarded(m) == TRUE

\* RLock proceeds: no writer holds the mutex or waits for it
CanRLock(m) == m.w = "free"

\* CanLock of a mutex that does not keep a second writer out
CanLockUnguarded(m) == TRUE

\* Lock gets past the writers' mutex: no other writer holds it
CanLock(m) == m.w = "free"

\* the writer that announced itself proceeds: the readers have left
CanEnter(m) == m.readers = 0

(***************************************************************************)
(* Calls                                                                   *)
(***************************************************************************)

\* a callback of a collaborator is running on goroutine t: a handler, a
\* Reloader's Validate or OnChange, or the FieldSetter inside HandleChange's
\* loop, or Reloader.Patterns inside RegisterReloader (patternsCalls: the
\* reloaders given have a Patterns method that calls into the Manager)
InCallback(t, patternsCalls) ==
    /\ stack[t] # <<>>
    /\ LET f == Top(t)
       IN  \/ /\ f.op = "HandleChange"
              /\ f.pc = "invoke"
              /\ \/ f.matched[f.idx].h.kind # "field"
                 \/ f.old # f.new /\ Len(splitKey(f.key)) >= 2
           \/ f.op = "RegisterReloader" /\ f.pc = "patterns" /\ patternsCalls

\* goroutine t may call into the Manager: from outside, or from a callback
CanCall(t, U) == ncalls < U.calls /\ (stack[t] = <<>> \/ InCallback(t, U.patternsCalls))

CallRegisterHandler(t, U) ==
    /\ CanCall(t, U)
    /\ \E pattern \in U.patterns, isNil \in U.nils :
         /\ isNil => pattern = U.nilPattern
         /\ stack' = Push(t, [op |-> "RegisterHandler", id |-> ncalls + 1, pc |-> "start",
                           pattern |-> pattern, isNil |-> isNil, cur |-> <<>>, res |-> Nil])
    /\ ncalls' = ncalls + 1
    /\ UNCHANGED <<handlers, reloaders, fieldSetter, allowedPrefixes, mu, returned, bindings>>

CallRegisterReloader(t, U) ==
    /\ CanCall(t, U)
    /\ \E patterns \in U.patternSeqs, isNil \in U.nils :
         stack' = Push(t, [op |-> "RegisterReloader", id |-> ncalls + 1, pc |-> "start",
                           patterns |-> patterns, isNil |-> isNil, res |-> Nil])
    /\ ncalls' = ncalls + 1
    /\ UNCHANGED <<handlers, reloaders, fieldSetter, allowedPrefixes, mu, returned, bindings>>

CallSetFieldSetter(t, U) ==
    /\ CanCall(t, U)
    /\ \E prefixes \in U.prefixSeqs, isNil \in U.nils :
         LET setter == IF isNil THEN 0 ELSE ncalls + 1
         IN  /\ stack' = Push(t, [op |-> "SetFieldSetter", id |-> ncalls + 1, pc |-> "start",
                                  setter |-> setter, prefixes |-> prefixes,
                                  isNil |-> FALSE, res |-> Nil])
             /\ bindings' = bindings \cup {[setter |-> setter, prefixes |-> prefixes]}
    /\ ncalls' = ncalls + 1
    /\ UNCHANGED <<handlers, reloaders, fieldSetter, allowedPrefixes, mu, returned>>

CallHandleChange(t, U) ==
    /\ CanCall(t, U)
    /\ \E key \in U.keys, v \in U.values :
         stack' = Push(t, [op |-> "HandleChange", id |-> ncalls + 1, pc |-> "start",
                           key |-> key, old |-> v[1], new |-> v[2],
                           matched |-> <<>>, fs |-> 0, ap |-> <<>>, idx |-> 1,
                           log |-> <<>>, res |-> Nil, seen |-> returned])
    /\ ncalls' = ncalls + 1
    /\ UNCHANGED <<handlers, reloaders, fieldSetter, allowedPrefixes, mu, returned, bindings>>

(***************************************************************************)
(* Registration: RegisterHandler, RegisterReloader, SetFieldSetter         *)
(***************************************************************************)

Writers == {"RegisterHandler", "RegisterReloader", "SetFieldSetter"}

\* the handler a registration call n adds to a pattern's list
Entry(n, kind) == [id |-> n, kind |-> kind]

\* the start of a writer: RegisterHandler and RegisterReloader return "manager
\* or handler is nil" for a nil argument; otherwise m.mu.Lock(), first half: the
\* call gets past the writers' mutex and readers are held off from now on
LockAnnounce(t) ==
    /\ stack[t] # <<>>
    /\ LET f == Top(t)
       IN  /\ f.op \in Writers /\ f.pc = "start"
           /\ IF f.isNil
              THEN /\ stack' = SetTop(t, [f EXCEPT !.pc = "ret",
                                                   !.res = [err |-> "nil argument", by |-> 0]])
                   /\ mu' = mu
              ELSE /\ CanLock(mu)
                   /\ stack' = SetTop(t, [f EXCEPT !.pc = "lockwait"])
                   /\ mu' = [mu EXCEPT !.w = "wait"]
    /\ UNCHANGED <<handlers, reloaders, fieldSetter, allowedPrefixes, ncalls, returned, bindings>>

\* RegisterHandler: m.mu.Lock(), second half (the readers have left), and the
\* read of m.handlers[pattern]
RegisterHandlerRead(t) ==
    /\ stack[t] # <<>>
    /\ LET f == Top(t)
       IN  /\ f.op = "RegisterHandler" /\ f.pc = "lockwait"
           /\ CanEnter(mu)
           /\ stack' = SetTop(t, [f EXCEPT !.pc = "write",
                                           !.cur = HandlersOf(handlers, f.pattern)])
    /\ mu' = [mu EXCEPT !.w = "held"]
    /\ UNCHANGED <<handlers, reloaders, fieldSetter, allowedPrefixes, ncalls, returned, bindings>>

\* AppendHandler with the handler put in front of the list
AppendHandlerFront(list, e) == <<e>> \o list

\* append(m.handlers[pattern], handler)
AppendHandler(list, e) == Append(list, e)

\* RegisterHandler: the write of m.handlers[pattern], and the deferred Unlock
RegisterHandlerWrite(t) ==
    /\ stack[t] # <<>>
    /\ LET f == Top(t)
       IN  /\ f.op = "RegisterHandler" /\ f.pc = "write"
           /\ handlers' = PutHandlers(handlers, f.pattern,
                                      AppendHandler(f.cur, Entry(f.id, "plain")))
           /\ stack' = SetTop(t, [f EXCEPT !.pc = "ret"])
    /\ mu' = [mu EXCEPT !.w = "free"]
    /\ UNCHANGED <<reloaders, fieldSetter, allowedPrefixes, ncalls, returned, bindings>>

\* RegisterReloader: m.mu.Lock(), second half, and m.reloaders =
\* append(m.reloaders, reloader); Patterns() is called next, with the lock held
RegisterReloaderAppend(t) ==
    /\ stack[t] # <<>>
    /\ LET f == Top(t)
       IN  /\ f.op = "RegisterReloader" /\ f.pc = "lockwait"
           /\ CanEnter(mu)
           /\ reloaders' = Append(reloaders, f.id)
           /\ stack' = SetTop(t, [f EXCEPT !.pc = "patterns"])
    /\ mu' = [mu EXCEPT !.w = "held"]
    /\ UNCHANGED <<handlers, fieldSetter, allowedPrefixes, ncalls, returned, bindings>>

RECURSIVE RegisterPatterns(_, _, _)
\* RegisterReloader's loop: one synthesized handler appended per pattern
RegisterPatterns(hs, patterns, e) ==
    IF patterns = <<>> THEN hs
    ELSE RegisterPatterns(
             PutHandlers(hs, Head(patterns), AppendHandler(HandlersOf(hs, Head(patterns)), e)),
             Tail(patterns), e)

\* RegisterReloader: Patterns() has returned; the loop, and the deferred Unlock
RegisterReloaderPatterns(t) ==
    /\ stack[t] # <<>>
    /\ LET f == Top(t)
       IN  /\ f.op = "RegisterReloader" /\ f.pc = "patterns"
           /\ handlers' = RegisterPatterns(handlers, f.patterns, Entry(f.id, "reloader"))
           /\ stack' = SetTop(t, [f EXCEPT !.pc = "ret"])
    /\ mu' = [mu EXCEPT !.w = "free"]
    /\ UNCHANGED <<reloaders, fieldSetter, allowedPrefixes, ncalls, returned, bindings>>

\* SetFieldSetter: m.mu.Lock(), second half, and m.fieldSetter = setter
SetFieldSetterSetter(t) ==
    /\ stack[t] # <<>>
    /\ LET f == Top(t)
       IN  /\ f.op = "SetFieldSetter" /\ f.pc = "lockwait"
           /\ CanEnter(mu)
           /\ fieldSetter' = f.setter
           /\ stack' = SetTop(t, [f EXCEPT !.pc = "prefixes"])
    /\ mu' = [mu EXCEPT !.w = "held"]
    /\ UNCHANGED <<handlers, reloaders, allowedPrefixes, ncalls, returned, bindings>>

\* SetFieldSetter: m.allowedPrefixes = allowedPrefixes, and the deferred Unlock
SetFieldSetterPrefixes(t) ==
    /\ stack[t] # <<>>
    /\ LET f == Top(t)
       IN  /\ f.op = "SetFieldSetter" /\ f.pc = "prefixes"
           /\ allowedPrefixes' = f.prefixes
           /\ stack' = SetTop(t, [f EXCEPT !.pc = "ret"])
    /\ mu' = [mu EXCEPT !.w = "free"]
    /\ UNCHANGED <<handlers, reloaders, fieldSetter, ncalls, returned, bindings>>

\* a call returns to its caller
Return(t) ==
    /\ stack[t] # <<>>
    /\ LET f == Top(t)
       IN  /\ f.pc = "ret"
           /\ returned' = IF f.op = "RegisterHandler" /\ f.res = Nil
                          THEN returned \cup {[id |-> f.id, pattern |-> f.pattern]}
                          ELSE returned
    /\ stack' = [stack EXCEPT ![t] = SubSeq(@, 1, Len(@) - 1)]
    /\ UNCHANGED <<handlers, reloaders, fieldSetter, allowedPrefixes, mu, ncalls, bindings>>

(***************************************************************************)
(* Dispatch: HandleChange                                                  *)
(***************************************************************************)

\* the handlers of one pattern's list, each with the pattern that reached it
Tagged(list, src) == [i \in 1..Len(list) |-> [h |-> list[i], src |-> src]]

\* 1. if handlers, ok := m.handlers[key]; ok
ExactHandlers(hs, key) == Tagged(HandlersOf(hs, key), key)

\* WildcardPatterns without the test pattern != key
WildcardPatternsWithKey(hs, key) == {p \in DOMAIN hs : matchPattern(p, key)}

\* the patterns the range over m.handlers takes: pattern != key && matchPattern
WildcardPatterns(hs, key) == {p \in DOMAIN hs : p # key /\ matchPattern(p, key)}

\* the range over m.handlers reaches a pattern on which matchPattern panics
CollectPanics(hs, key) == \E p \in DOMAIN hs : p # key /\ matchPatternPanics(p, key)

RECURSIVE WildcardHandlers(_, _)
\* 2. the lists of the matching patterns, in the order the range visits them
WildcardHandlers(hs, order) ==
    IF order = <<>> THEN <<>>
    ELSE Tagged(hs[Head(order)], Head(order)) \o WildcardHandlers(hs, Tail(order))

\* MatchedHandlers with the range over the map run before the exact lookup
MatchedHandlersWildcardFirst(hs, key, order) ==
    WildcardHandlers(hs, order) \o ExactHandlers(hs, key)

\* matchedHandlers when the read lock is released
MatchedHandlers(hs, key, order) == ExactHandlers(hs, key) \o WildcardHandlers(hs, order)

\* the allowed prefixes key has, by hasPrefix
MatchingPrefixes(ap, key) == {i \in 1..Len(ap) : hasPrefix(key, ap[i])}

\* 3. the structured-field handler is appended when a setter and prefixes are
\* bound and key has one of the prefixes
WithFieldHandler(matched, fs, ap, key) ==
    IF fs # 0 /\ Len(ap) > 0 /\ MatchingPrefixes(ap, key) # {}
    THEN LET i == CHOOSE j \in MatchingPrefixes(ap, key) :
                      \A k \in MatchingPrefixes(ap, key) : j <= k
         IN  Append(matched, [h |-> Entry(fs, "field"), src |-> ap[i]])
    ELSE matched

\* a registered handler: collaborator code, it returns nil or an error
PlainHandler(id, ok) ==
    [calls |-> <<"handler">>, set |-> <<>>,
     r |-> IF ok THEN Nil ELSE [err |-> "handler", by |-> id]]

\* ReloaderHandler with OnChange called whatever Validate returned
ReloaderHandlerNoGate(id, validateOk, onChangeOk) ==
    [calls |-> <<"Validate", "OnChange">>, set |-> <<>>,
     r |-> IF ~validateOk THEN [err |-> "validation failed", by |-> id]
           ELSE IF onChangeOk THEN Nil ELSE [err |-> "OnChange", by |-> id]]

\* the handler RegisterReloader synthesizes: Validate, then OnChange
ReloaderHandler(id, validateOk, onChangeOk) ==
    IF ~validateOk
    THEN [calls |-> <<"Validate">>, set |-> <<>>,
          r |-> [err |-> "validation failed", by |-> id]]
    ELSE [calls |-> <<"Validate", "OnChange">>, set |-> <<>>,
          r |-> IF onChangeOk THEN Nil ELSE [err |-> "OnChange", by |-> id]]

\* the call of the setter and what handleSystemConfig returns after it
CallSetter(module, fieldPath, newValue, setter, setterOk) ==
    [calls |-> <<"setter">>,
     set |-> <<[module |-> module, fieldPath |-> fieldPath, value |-> newValue]>>,
     r |-> IF setterOk THEN Nil ELSE [err |-> "failed to set field", by |-> setter]]

\* handleSystemConfig with the field path cut to the key's second segment
handleSystemConfigSecondSegment(key, oldValue, newValue, setter, setterOk) ==
    IF oldValue = newValue THEN [calls |-> <<>>, set |-> <<>>, r |-> Nil]
    ELSE LET parts == splitKey(key)
         IN  IF Len(parts) < 2
             THEN [calls |-> <<>>, set |-> <<>>,
                   r |-> [err |-> "invalid config key format", by |-> 0]]
             ELSE CallSetter(parts[1], parts[2], newValue, setter, setterOk)

\* handleSystemConfig without the check that the value changed
handleSystemConfigNoSuppress(key, oldValue, newValue, setter, setterOk) ==
    LET parts == splitKey(key)
    IN  IF Len(parts) < 2
        THEN [calls |-> <<>>, set |-> <<>>,
              r |-> [err |-> "invalid config key format", by |-> 0]]
        ELSE CallSetter(parts[1], joinKey(Tail(parts)), newValue, setter, setterOk)

\* handleSystemConfig without the check of the number of segments
handleSystemConfigNoFormatCheck(key, oldValue, newValue, setter, setterOk) ==
    IF oldValue = newValue THEN [calls |-> <<>>, set |-> <<>>, r |-> Nil]
    ELSE LET parts == splitKey(key)
         IN  CallSetter(parts[1], joinKey(Tail(parts)), newValue, setter, setterOk)

\* handleSystemConfig; set holds the arguments the setter was called with
handleSystemConfig(key, oldValue, newValue, setter, setterOk) ==
    IF oldValue = newValue THEN [calls |-> <<>>, set |-> <<>>, r |-> Nil]
    ELSE LET parts == splitKey(key)
         IN  IF Len(parts) < 2
             THEN [calls |-> <<>>, set |-> <<>>,
                   r |-> [err |-> "invalid config key format", by |-> 0]]
             ELSE CallSetter(parts[1], joinKey(Tail(parts)), newValue, setter, setterOk)

\* HandlerOutcomes with the field handler calling the setter bound to the
\* Manager when it runs, not the one the call took under the read lock
HandlerOutcomesLiveSetter(f, item) ==
    CASE item.h.kind = "plain" ->
           {PlainHandler(item.h.id, ok) : ok \in BOOLEAN}
      [] item.h.kind = "reloader" ->
           {ReloaderHandler(item.h.id, v, c) : v \in BOOLEAN, c \in BOOLEAN}
      [] item.h.kind = "field" ->
           {handleSystemConfig(f.key, f.old, f.new, fieldSetter, ok) : ok \in BOOLEAN}

\* what running the handler item of call f may do
HandlerOutcomes(f, item) ==
    CASE item.h.kind = "plain" ->
           {PlainHandler(item.h.id, ok) : ok \in BOOLEAN}
      [] item.h.kind = "reloader" ->
           {ReloaderHandler(item.h.id, v, c) : v \in BOOLEAN, c \in BOOLEAN}
      [] item.h.kind = "field" ->
           {handleSystemConfig(f.key, f.old, f.new, item.h.id, ok) : ok \in BOOLEAN}

\* the record of one handler's run with the arguments it got
Event(f, item, out) ==
    [h |-> item.h, src |-> item.src, args |-> <<f.key, f.old, f.new>>,
     calls |-> out.calls, set |-> out.set, r |-> out.r]

\* LoopStep with the error caught and the loop going on: the first error is
\* returned after the last handler
LoopStepContinue(f, ev) ==
    LET g == [f EXCEPT !.log = Append(@, ev),
                       !.res = IF f.res = Nil THEN ev.r ELSE f.res]
    IN  IF f.idx = Len(f.matched) THEN [g EXCEPT !.pc = "ret"]
        ELSE [g EXCEPT !.idx = @ + 1]

\* LoopStep with the error logged and not returned
LoopStepSwallow(f, ev) ==
    IF ev.r # Nil \/ f.idx = Len(f.matched)
    THEN [f EXCEPT !.log = Append(@, ev), !.pc = "ret"]
    ELSE [f EXCEPT !.log = Append(@, ev), !.idx = @ + 1]

\* one turn of the loop over matchedHandlers: return the first error, go on
\* otherwise, return nil after the last handler
LoopStep(f, ev) ==
    IF ev.r # Nil
    THEN [f EXCEPT !.log = Append(@, ev), !.res = ev.r, !.pc = "ret"]
    ELSE IF f.idx = Len(f.matched)
    THEN [f EXCEPT !.log = Append(@, ev), !.pc = "ret"]
    ELSE [f EXCEPT !.log = Append(@, ev), !.idx = @ + 1]

\* m.mu.RLock(), the exact-match lookup, the range over m.handlers and the
\* reads of m.fieldSetter and m.allowedPrefixes
HandleChangeSnapshot(t) ==
    /\ stack[t] # <<>>
    /\ LET f == Top(t)
       IN  /\ f.op = "HandleChange" /\ f.pc = "start"
           /\ CanRLock(mu)
           /\ ~CollectPanics(handlers, f.key)
           /\ \E order \in Orders(WildcardPatterns(handlers, f.key)) :
                stack' = SetTop(t, [f EXCEPT !.pc = "snapshot",
                                             !.matched = MatchedHandlers(handlers, f.key, order),
                                             !.fs = fieldSetter,
                                             !.ap = allowedPrefixes])
    /\ mu' = [mu EXCEPT !.readers = @ + 1]
    /\ UNCHANGED <<handlers, reloaders, fieldSetter, allowedPrefixes, ncalls, returned, bindings>>

\* m.mu.RLock(), and matchPattern panics inside the range: the goroutine's calls
\* unwind up to the caller that recovers; no RUnlock runs (it is not deferred),
\* the deferred Unlock of an enclosing RegisterReloader does
HandleChangePanic(t) ==
    /\ stack[t] # <<>>
    /\ LET f == Top(t)
       IN  /\ f.op = "HandleChange" /\ f.pc = "start"
           /\ CanRLock(mu)
           /\ CollectPanics(handlers, f.key)
    /\ mu' = [readers |-> mu.readers + 1,
              w |-> IF \E i \in 1..Len(stack[t]) : stack[t][i].op = "RegisterReloader"
                    THEN "free" ELSE mu.w]
    /\ stack' = [stack EXCEPT ![t] = <<>>]
    /\ UNCHANGED <<handlers, reloaders, fieldSetter, allowedPrefixes, ncalls, returned, bindings>>

\* m.mu.RUnlock() and the allowed-prefix check
HandleChangeRUnlock(t) ==
    /\ stack[t] # <<>>
    /\ LET f == Top(t)
           m == WithFieldHandler(f.matched, f.fs, f.ap, f.key)
       IN  /\ f.op = "HandleChange" /\ f.pc = "snapshot"
           /\ stack' = SetTop(t, [f EXCEPT !.pc = IF m = <<>> THEN "ret" ELSE "invoke",
                                           !.matched = m])
    /\ mu' = [mu EXCEPT !.readers = @ - 1]
    /\ UNCHANGED <<handlers, reloaders, fieldSetter, allowedPrefixes, ncalls, returned, bindings>>

\* the loop over matchedHandlers: handler f.idx runs and returns
HandleChangeInvoke(t) ==
    /\ stack[t] # <<>>
    /\ LET f == Top(t)
       IN  /\ f.op = "HandleChange" /\ f.pc = "invoke"
           /\ \E out \in HandlerOutcomes(f, f.matched[f.idx]) :
                stack' = SetTop(t, LoopStep(f, Event(f, f.matched[f.idx], out)))
    /\ UNCHANGED <<handlers, reloaders, fieldSetter, allowedPrefixes, mu, ncalls, returned, bindings>>

(***************************************************************************)
(* Specifications                                                          *)
(***************************************************************************)

\* a step of a call in progress on goroutine t
Step(t) ==
    \/ LockAnnounce(t)
    \/ RegisterHandlerRead(t)
    \/ RegisterHandlerWrite(t)
    \/ RegisterReloaderAppend(t)
    \/ RegisterReloaderPatterns(t)
    \/ SetFieldSetterSetter(t)
    \/ SetFieldSetterPrefixes(t)
    \/ HandleChangeSnapshot(t)
    \/ HandleChangePanic(t)
    \/ HandleChangeRUnlock(t)
    \/ HandleChangeInvoke(t)
    \/ Return(t)

\* goroutine t calls into the Manager with inputs of U
Call(t, U) ==
    \/ CallRegisterHandler(t, U)
    \/ CallRegisterReloader(t, U)
    \/ CallSetFieldSetter(t, U)
    \/ CallHandleChange(t, U)

Next == \E t \in Threads : Call(t, ConcU) \/ Step(t)

\* concurrent callers
Spec == Init /\ [][Next]_vars

RouteNext == Call("t1", RouteU) \/ Step("t1")

\* one caller, every key
RouteSpec == Init /\ [][RouteNext]_vars

FairNext == \E t \in Threads : Call(t, FairU) \/ Step(t)

\* concurrent callers under a fair scheduler: a goroutine that can take a step
\* of the call it is in eventually takes it
FairSpec == Init /\ [][FairNext]_vars /\ \A t \in Threads : WF_vars(Step(t))

\* the matcher at work: one caller registers one handler under any pattern and
\* dispatches any key, one call after the other
MatchNext ==
    \/ DOMAIN handlers = {} /\ stack["t1"] = <<>> /\ CallRegisterHandler("t1", MatchU)
    \/ stack["t1"] = <<>> /\ CallHandleChange("t1", MatchU)
    \/ LockAnnounce("t1")
    \/ RegisterHandlerRead("t1")
    \/ RegisterHandlerWrite("t1")
    \/ HandleChangeSnapshot("t1")
    \/ HandleChangePanic("t1")
    \/ HandleChangeRUnlock("t1")
    \/ HandleChangeInvoke("t1")
    \/ Return("t1")

\* one caller, one pattern, every key
MatchSpec == Init /\ [][MatchNext]_vars

(***************************************************************************)
(* Claims                                                                  *)
(***************************************************************************)

\* the calls in progress, on every goroutine
Frames == UNION {{stack[t][i] : i \in 1..Len(stack[t])} : t \in Threads}

\* the HandleChange calls in progress
Dispatches == {f \in Frames : f.op = "HandleChange"}

\* goroutine t is inside a call that a handler of its HandleChange made
InHandlerCall(t) == Len(stack[t]) >= 2 /\ stack[t][1].op = "HandleChange"

\* C5: a handler that calls RegisterHandler, RegisterReloader, SetFieldSetter or
\* HandleChange on the same Manager eventually gets the call back, under every
\* interleaving with the other goroutine's calls and a fair scheduler
C5_HandlerCallReturns ==
    \A t \in Threads : InHandlerCall(t) ~> ~InHandlerCall(t)

\* the HandleChange calls that have their result and are about to return
Finished == {f \in Dispatches : f.pc = "ret"}

\* the turns of f's loop in which the handler returned an error
Failures(f) == {i \in 1..Len(f.log) : f.log[i].r # Nil}

\* the handlers of f that have run are the first ones of matchedHandlers, in
\* order, each run once with the arguments of the call
RanInOrder(f) ==
    /\ Len(f.log) <= Len(f.matched)
    /\ \A i \in 1..Len(f.log) :
         /\ f.log[i].h = f.matched[i].h
         /\ f.log[i].src = f.matched[i].src
         /\ f.log[i].args = <<f.key, f.old, f.new>>

\* C1: when handler i is the first to return an error, the handlers 1..i have
\* each run once, in order and with the call's arguments (nothing undoes the
\* earlier ones), and no later handler runs: the call goes straight to its return
C1_ShortCircuit ==
    \A f \in Dispatches :
      /\ RanInOrder(f)
      /\ \A i \in Failures(f) : i = Len(f.log) /\ f.pc = "ret"
      /\ f.pc = "invoke" => f.idx = Len(f.log) + 1

\* C1's case: the second of three matched handlers failed and the third did not run
C1_Witness ==
    \E f \in Finished :
      /\ Len(f.matched) = 3 /\ Len(f.log) = 2
      /\ f.log[1].r = Nil /\ f.log[2].r # Nil
      /\ f.matched[3].h.kind = "field"

\* the group of a matched handler: 1 reached by the pattern equal to the key,
\* 2 reached by another pattern, 3 the structured-field handler
Group(f, item) ==
    IF item.h.kind = "field" THEN 3 ELSE IF item.src = f.key THEN 1 ELSE 2

\* C2: the handlers of the pattern equal to the key come before every handler of
\* a wildcard pattern, the structured-field handler comes last, and the handlers
\* run in that order
C2_DispatchOrder ==
    \A f \in Dispatches :
      /\ \A i, j \in 1..Len(f.matched) :
           i < j => Group(f, f.matched[i]) <= Group(f, f.matched[j])
      /\ \A i \in 1..Len(f.matched) :
           Group(f, f.matched[i]) = 2 =>
             /\ f.matched[i].src \in DOMAIN handlers
             /\ matchPattern(f.matched[i].src, f.key)
      /\ Cardinality({i \in 1..Len(f.matched) : Group(f, f.matched[i]) = 3}) <= 1
      /\ RanInOrder(f)

\* C2's case: an exact-match handler, a wildcard handler and the field handler
\* have run, in this order
C2_Witness ==
    \E f \in Finished :
      /\ Len(f.log) = 3
      /\ Group(f, f.log[1]) = 1 /\ Group(f, f.log[2]) = 2 /\ Group(f, f.log[3]) = 3

\* C3: the handler of a Reloader calls Validate first, calls OnChange only after
\* Validate succeeded, and a failed Validate ends the call with that error
C3_ValidateBeforeApply ==
    \A f \in Dispatches :
      \A i \in 1..Len(f.log) :
        f.log[i].h.kind = "reloader" =>
          /\ f.log[i].calls \in {<<"Validate">>, <<"Validate", "OnChange">>}
          /\ f.log[i].r.err = "validation failed" =>
               /\ f.log[i].calls = <<"Validate">>
               /\ f.log[i].r.by = f.log[i].h.id
               /\ f.pc = "ret" /\ f.res = f.log[i].r
          /\ f.log[i].r.err # "validation failed" =>
               f.log[i].calls = <<"Validate", "OnChange">>

\* C3's case: a Reloader's Validate failed and HandleChange returns that error
C3_Witness ==
    \E f \in Finished :
      /\ f.res.err = "validation failed"
      /\ f.log[Len(f.log)].calls = <<"Validate">>

\* the number of times registration n is in the list of its pattern
TimesRegistered(n, pattern) ==
    Cardinality({i \in 1..Len(HandlersOf(handlers, pattern)) :
                   handlers[pattern][i] = Entry(n, "plain")})

\* the RegisterHandler calls that have written their handler
Written ==
    {[id |-> f.id, pattern |-> f.pattern] :
       f \in {g \in Frames : g.op = "RegisterHandler" /\ g.pc = "ret" /\ g.res = Nil}}

\* C4: no registration is lost: every RegisterHandler call that returned has its
\* handler in the registry once, the registry holds no other handler of
\* RegisterHandler, and a HandleChange that starts after the calls returned and in
\* which every handler succeeds has run each of them whose pattern matches its key
C4_NoLostUpdates ==
    /\ \A r \in returned : TimesRegistered(r.id, r.pattern) = 1
    /\ \A p \in DOMAIN handlers : \A i \in 1..Len(handlers[p]) :
         handlers[p][i].kind = "plain" =>
           [id |-> handlers[p][i].id, pattern |-> p] \in returned \cup Written
    /\ \A f \in Finished :
         f.res = Nil =>
           \A r \in f.seen :
             (r.pattern = f.key \/ matchPattern(r.pattern, f.key)) =>
               \E i \in 1..Len(f.log) :
                 f.log[i].h = Entry(r.id, "plain") /\ f.log[i].src = r.pattern

\* C4's case: two RegisterHandler calls for one pattern have returned and a later
\* HandleChange has run both handlers
C4_Witness ==
    \E f \in Finished :
      /\ f.res = Nil
      /\ \E r1, r2 \in f.seen :
           /\ r1.id # r2.id /\ r1.pattern = r2.pattern
           /\ \E i, j \in 1..Len(f.log) :
                f.log[i].h.id = r1.id /\ f.log[j].h.id = r2.id

\* C6: HandleChange returns the error of the first handler that failed, and nil
\* when no handler that ran failed, also when no handler matched
C6_ReturnValue ==
    \A f \in Finished :
      IF Failures(f) = {} THEN f.res = Nil
      ELSE \E i \in Failures(f) :
             /\ \A j \in Failures(f) : i <= j
             /\ f.res = f.log[i].r

\* C6's case: a call whose second handler failed returns that handler's error
C6_Witness ==
    \E f \in Finished :
      /\ Len(f.log) = 2 /\ f.log[2].r # Nil /\ f.res = f.log[2].r
      /\ f.res.by = f.log[2].h.id

\* the runs of the structured-field handler in call f
FieldRuns(f) == {i \in 1..Len(f.log) : f.log[i].h.kind = "field"}

\* the turns of f's loop in which the field setter was called
SetterCalls(f) == {i \in 1..Len(f.log) : f.log[i].set # <<>>}

\* a prefix matches a key as the allowed-prefix contract has it: the prefix with
\* ".*" appended matches, or the key starts with the prefix
PrefixMatches(prefix, key) ==
    matchPattern(prefix \o <<".", "*">>, key) \/ HasPrefix(key, prefix)

\* call f took a bound setter and an allowed prefix its key starts with
UnderAllowedPrefix(f) ==
    f.fs # 0 /\ \E i \in 1..Len(f.ap) : HasPrefix(f.key, f.ap[i])

\* C7: HandleChange calls the field setter only when it took a bound setter and
\* a non-empty prefix list of which one prefix matches the key
C7_AllowedPrefixGate ==
    \A f \in Dispatches :
      SetterCalls(f) # {} =>
        /\ f.fs # 0
        /\ Len(f.ap) > 0
        /\ \E i \in 1..Len(f.ap) : PrefixMatches(f.ap[i], f.key)

\* C8: a key of two or more segments routed to the field handler with unequal
\* values has the setter called once, with the new value, a module without a
\* dot and a field path such that module, ".", field path is the key
C8_Decomposition ==
    \A f \in Dispatches :
      \A i \in FieldRuns(f) :
        (Contains(f.key, ".") /\ f.old # f.new) =>
          /\ Len(f.log[i].set) = 1
          /\ f.log[i].calls = <<"setter">>
          /\ ~Contains(f.log[i].set[1].module, ".")
          /\ f.log[i].set[1].module \o <<".">> \o f.log[i].set[1].fieldPath = f.key
          /\ f.log[i].set[1].value = f.new

\* C8's case: the setter was called for a key of three segments
C8_Witness ==
    \E f \in Finished :
      \E i \in SetterCalls(f) :
        /\ f.key = <<"a", ".", "a", ".">>
        /\ f.log[i].set[1].module = <<"a">>
        /\ f.log[i].set[1].fieldPath = <<"a", ".">>

\* C9: with equal old and new values the setter is never called, the field
\* handler returns nil, and the call returns nil when no other handler failed;
\* for a key under an allowed prefix the field handler is the one that runs last
C9_NoOpSuppression ==
    \A f \in Dispatches :
      f.old = f.new =>
        /\ SetterCalls(f) = {}
        /\ \A i \in FieldRuns(f) : f.log[i].r = Nil
        /\ (f.pc = "ret" /\ Failures(f) = {}) =>
             /\ f.res = Nil
             /\ UnderAllowedPrefix(f) => Len(f.log) \in FieldRuns(f)

\* C9's case: a call with equal values for a key under an allowed prefix ran the
\* field handler and returns nil
C9_Witness ==
    \E f \in Finished :
      /\ f.old = f.new /\ UnderAllowedPrefix(f) /\ f.key # <<>>
      /\ FieldRuns(f) # {} /\ f.res = Nil

\* a call for a key without a dot under an allowed prefix, about to return, in
\* which no handler before the field handler failed
ZeroDotRouted(f) ==
    /\ f.pc = "ret"
    /\ ~Contains(f.key, ".")
    /\ UnderAllowedPrefix(f)
    /\ \A i \in Failures(f) : f.log[i].h.kind = "field"

\* C10 as stated: for every old and new value such a call returns the
\* invalid-key-format error and the setter is not called
C10_InvalidKeyAnyValues ==
    \A f \in Dispatches :
      ZeroDotRouted(f) =>
        /\ f.res.err = "invalid config key format"
        /\ SetterCalls(f) = {}

\* C10 amended: such a call does not call the setter; it returns the
\* invalid-key-format error when the old and new values differ, and nil when
\* they are equal
C10_InvalidKeyFormat ==
    \A f \in Dispatches :
      /\ ~Contains(f.key, ".") => SetterCalls(f) = {}
      /\ ZeroDotRouted(f) =>
           /\ Len(f.log) \in FieldRuns(f)
           /\ f.old # f.new => f.res.err = "invalid config key format"
           /\ f.old = f.new => f.res = Nil

\* C10's case: a key without a dot, unequal values, the invalid-key-format error
C10_Witness ==
    \E f \in Finished :
      /\ ZeroDotRouted(f) /\ f.old # f.new /\ f.key = <<"a", "a">>
      /\ f.res.err = "invalid config key format"

\* the HandleChange calls that have taken their snapshot of the registry
Snapshotted == {f \in Dispatches : f.pc # "start"}

\* C11: the setter and the allowed prefixes a HandleChange call took are the two
\* arguments of one SetFieldSetter call, or the empty binding of a new Manager
C11_AtomicRebinding ==
    \A f \in Snapshotted : [setter |-> f.fs, prefixes |-> f.ap] \in bindings

\* C11's case: a HandleChange holds the binding of one SetFieldSetter call while
\* another SetFieldSetter call waits to replace it
C11_Witness ==
    \E f \in Snapshotted :
      /\ f.pc = "snapshot" /\ f.fs # 0 /\ f.ap # <<>>
      /\ \E g \in Frames :
           g.op = "SetFieldSetter" /\ g.pc = "lockwait" /\ g.prefixes # f.ap

\* the number of "*" characters of a pattern
Stars(pattern) == Cardinality({i \in 1..Len(pattern) : pattern[i] = "*"})

\* the pattern ends with the two characters ".*"
EndsDotStar(pattern) ==
    Len(pattern) >= 2 /\ SubSeq(pattern, Len(pattern) - 1, Len(pattern)) = <<".", "*">>

\* call f collected the handlers registered under pattern p
Reached(f, p) ==
    \E i \in 1..Len(f.matched) : f.matched[i].h.kind # "field" /\ f.matched[i].src = p

\* C12: a handler registered under "*" before a HandleChange call for a
\* non-empty key, with or without dots, has been invoked when the call returns
C12_GlobalMatch ==
    \A f \in Finished :
      (f.key # <<>> /\ <<"*">> \in DOMAIN handlers) =>
        \E i \in 1..Len(f.log) : f.log[i].src = <<"*">>

\* C13 as stated: a pattern with more than one "*" matches no key at all, and
\* its handlers are collected for no key
C13_MultiWildcardAnyKey ==
    \A f \in Dispatches : \A p \in DOMAIN handlers :
      Stars(p) > 1 =>
        /\ ~matchPattern(p, f.key)
        /\ f \in Snapshotted => ~Reached(f, p)

\* C13 amended: a pattern with more than one "*" matches no key that has no "*"
\* character, and its handlers are collected for no such key
C13_MultiWildcard ==
    \A f \in Dispatches : \A p \in DOMAIN handlers :
      (Stars(p) > 1 /\ ~Contains(f.key, "*")) =>
        /\ ~matchPatternPanics(p, f.key)
        /\ ~matchPattern(p, f.key)
        /\ f \in Snapshotted => ~Reached(f, p)

\* C13's case: the key "a.a" dispatched with a handler under "*.*" registered:
\* no handler ran
C13_Witness ==
    \E f \in Finished :
      /\ <<"*", ".", "*">> \in DOMAIN handlers
      /\ f.key = <<"a", ".", "a">>
      /\ f.log = <<>> /\ f.res = Nil

\* C14: the empty pattern matches no key, the empty key included, and a handler
\* registered under it is collected by no HandleChange call
C14_EmptyPattern ==
    \A f \in Dispatches :
      /\ ~matchPattern(<<>>, f.key)
      /\ f \in Snapshotted => ~Reached(f, <<>>)

\* the part of a single-wildcard pattern before the "*"
StarPrefix(pattern) == SubSeq(pattern, 1, IndexOf(pattern, "*") - 1)

\* the part of a single-wildcard pattern after the "*"
StarSuffix(pattern) == SubSeq(pattern, IndexOf(pattern, "*") + 1, Len(pattern))

\* the single-level match of the matcher's contract: the pattern is the key, or
\* the key starts with the prefix, ends with the suffix, and what lies strictly
\* between the two has no "."
SingleLevelMatch(pattern, key) ==
    \/ pattern = key
    \/ /\ HasPrefix(key, StarPrefix(pattern))
       /\ HasSuffix(key, StarSuffix(pattern))
       /\ Len(key) >= Len(StarPrefix(pattern)) + Len(StarSuffix(pattern))
       /\ \A i \in (Len(StarPrefix(pattern)) + 1)..(Len(key) - Len(StarSuffix(pattern))) :
            key[i] # "."

\* C16: for a pattern with one "*" that does not end in ".*" and any key, also
\* one shorter than prefix and suffix together, matchPattern returns, its result
\* is the single-level match, and HandleChange collects the pattern's handlers
\* exactly then
C16_SingleLevelWildcard ==
    \A f \in Dispatches : \A p \in DOMAIN handlers :
      (Stars(p) = 1 /\ ~EndsDotStar(p)) =>
        /\ ~matchPatternPanics(p, f.key)
        /\ matchPattern(p, f.key) <=> SingleLevelMatch(p, f.key)
        /\ f \in Snapshotted => (Reached(f, p) <=> SingleLevelMatch(p, f.key))

\* C17: for a pattern that ends in ".*", the pattern ".*" included, and any key,
\* matchPattern is true exactly when the key starts with the pattern less its
\* last two characters, and HandleChange collects the pattern's handlers exactly
\* then
C17_PrefixWildcard ==
    \A f \in Dispatches : \A p \in DOMAIN handlers :
      EndsDotStar(p) =>
        /\ ~matchPatternPanics(p, f.key)
        /\ matchPattern(p, f.key) <=> HasPrefix(f.key, SubSeq(p, 1, Len(p) - 2))
        /\ f \in Snapshotted =>
             (Reached(f, p) <=> HasPrefix(f.key, SubSeq(p, 1, Len(p) - 2)))

\* a is an initial part of b
IsPrefixSeq(a, b) == Len(a) <= Len(b) /\ SubSeq(b, 1, Len(a)) = a

\* the handlers of pattern p in a sequence of matched or run handlers
OfPattern(items, p) ==
    LET sel == SelectSeq(items, LAMBDA e : e.h.kind # "field" /\ e.src = p)
    IN  [i \in 1..Len(sel) |-> sel[i].h]

\* every list of the registry is kept, as it is or with handlers added at its end
Extended ==
    \A p \in DOMAIN handlers :
      p \in DOMAIN handlers' /\ IsPrefixSeq(handlers[p], handlers'[p])

\* the handlers of one pattern a call has run are the first ones of the
\* pattern's list, in the order of the list
RanInRegistrationOrder ==
    \A f \in Dispatches :
      /\ \A i \in 1..Len(f.log) :
           f.log[i].h.kind # "field" => f.log[i].src \in DOMAIN handlers
      /\ \A p \in DOMAIN handlers : IsPrefixSeq(OfPattern(f.log, p), handlers[p])

\* C15: no step removes or reorders a handler of the registry (a list only
\* grows at its end, so its order is the order in which the registrations took
\* effect), and HandleChange runs the handlers of one pattern in that order
C15_AppendOnly == [][Extended /\ RanInRegistrationOrder']_vars

\* C15's case: of two registrations for one pattern the one called later took
\* effect first, and a HandleChange ran the two handlers in the order of the list
C15_Witness ==
    \E f \in Finished : \E p \in DOMAIN handlers :
      /\ Len(handlers[p]) = 2
      /\ handlers[p][1].id > handlers[p][2].id
      /\ OfPattern(f.log, p) = handlers[p]

\* the HandleChange calls that have released their read lock
Released == {f \in Dispatches : f.pc \in {"invoke", "ret"}}

\* the handler at place k of pattern p's list is among those call f collected
Collected(f, hs, p, k) ==
    \E i \in 1..Len(f.matched) : f.matched[i].h = hs[p][k] /\ f.matched[i].src = p

\* a call that has released its read lock keeps its handlers and its binding
SnapshotKept ==
    \A t \in Threads : \A i \in 1..Len(stack[t]) :
      (stack[t][i] \in Released /\ i <= Len(stack'[t])) =>
        /\ stack'[t][i].matched = stack[t][i].matched
        /\ stack'[t][i].fs = stack[t][i].fs
        /\ stack'[t][i].ap = stack[t][i].ap

\* a handler this step adds to the registry is in no snapshot taken before
LateHandlerUnseen ==
    \A p \in DOMAIN handlers' :
      \A k \in (Len(HandlersOf(handlers, p)) + 1)..Len(handlers'[p]) :
        \A f \in Snapshotted : ~Collected(f, handlers', p, k)

\* a call that takes its snapshot in this step takes every handler of every
\* pattern that is or matches its key, and the binding of the Manager
SnapshotCurrent ==
    \A t \in Threads :
      (/\ stack[t] # <<>> /\ Len(stack'[t]) = Len(stack[t])
       /\ Top(t).op = "HandleChange" /\ Top(t).pc = "start"
       /\ stack'[t][Len(stack[t])].pc = "snapshot") =>
        LET g == stack'[t][Len(stack[t])]
        IN  /\ g.fs = fieldSetter /\ g.ap = allowedPrefixes
            /\ \A p \in DOMAIN handlers :
                 (p = g.key \/ matchPattern(p, g.key)) =>
                   \A k \in 1..Len(handlers[p]) : Collected(g, handlers, p, k)

\* what a call runs is what it collected, and its field handler calls the
\* setter it took
RunsSnapshot ==
    \A f \in Dispatches :
      /\ RanInOrder(f)
      /\ \A i \in FieldRuns(f) :
           /\ f.log[i].h.id = f.fs
           /\ f.log[i].r.err = "failed to set field" => f.log[i].r.by = f.fs

\* C18: once a HandleChange call has released its read lock its handlers and
\* its binding do not change and are all it runs and uses; a handler registered
\* later is not among them, and a call that takes its snapshot later has every
\* handler registered and the binding set by then
C18_SnapshotIsolation ==
    [][SnapshotKept /\ LateHandlerUnseen /\ SnapshotCurrent /\ RunsSnapshot']_vars

\* C18's case: a call ran the one handler it had collected and returns, and a
\* second handler for its key, registered after its snapshot, did not run
C18_Witness ==
    \E f \in Finished :
      /\ Failures(f) = {} /\ Len(f.log) = 1
      /\ \E p \in DOMAIN handlers :
           /\ p = f.key \/ matchPattern(p, f.key)
           /\ Collected(f, handlers, p, 1)
           /\ \E k \in 1..Len(handlers[p]) : ~Collected(f, handlers, p, k)

\* C19: in one HandleChange call the field handler is collected and run at most
\* once and the setter called at most once, whatever the number of allowed
\* prefixes the key has, and no handler of a pattern's list runs twice, also
\* when the pattern is the key
C19_AtMostOnce ==
    \A f \in Dispatches :
      /\ Cardinality({i \in 1..Len(f.matched) : f.matched[i].h.kind = "field"}) <= 1
      /\ Cardinality(FieldRuns(f)) <= 1
      /\ Cardinality(SetterCalls(f)) <= 1
      /\ \A i, j \in 1..Len(f.log) :
           (f.log[i].h = f.log[j].h /\ f.log[i].src = f.log[j].src) => i = j

\* C19's case: a key with two allowed prefixes and a handler registered under
\* the key itself: the handler ran once and the setter was called once
C19_Witness ==
    \E f \in Finished :
      /\ Cardinality(MatchingPrefixes(f.ap, f.key)) = 2
      /\ Cardinality(SetterCalls(f)) = 1
      /\ \E i \in 1..Len(f.log) : f.log[i].h.kind # "field" /\ f.log[i].src = f.key

\* the call of frame f is inside a callback of a collaborator
RunsCallback(f) ==
    \/ f.op = "HandleChange" /\ f.pc = "invoke"
    \/ f.op = "RegisterReloader" /\ f.pc = "patterns"

\* the call of frame f holds the Manager's mutex, for reading or for writing
HoldsMutex(f) ==
    \/ f.op = "HandleChange" /\ f.pc = "snapshot"
    \/ f.op \in Writers /\ f.pc \in {"write", "patterns", "prefixes"}

\* C20: no call is inside a callback of a collaborator while it holds the
\* mutex, and so no call made from a callback waits for a lock that its own
\* goroutine holds
C20_NoCallbackUnderLock ==
    \A f \in Frames : ~(RunsCallback(f) /\ HoldsMutex(f))

====
